---- MODULE Spec2Model ----
(***************************************************************************)
(* Model of the Kamap availability parser (src/src/parsers/kamap_parser.py)*)
(* and of the parse step of the pipeline (src/pipeline.py).                *)
(*                                                                         *)
(* Text is modelled as TLA+ strings; a character is a string of length 1.  *)
(* The regular expressions of the parser are modelled by operators that    *)
(* compute the leftmost match the way Python's backtracking matcher does.  *)
(* Indices are 1-based here (Python's are 0-based); an "end" index is the  *)
(* index of the first character after the match.                           *)
(***************************************************************************)
EXTENDS Integers, Sequences, FiniteSets, TLC

(***************************************************************************)
(* Python values                                                           *)
(***************************************************************************)
\* Python's None; a value that is present is wrapped as <<v>>.
None == <<>>

Some(v) == <<v>>

(***************************************************************************)
(* Characters and strings                                                  *)
(***************************************************************************)
Ch(s, i) == SubSeq(s, i, i)

DigitChars == "0123456789"

UpperChars == "ABCDEFGHIJKLMNOPQRSTUVWXYZ"

LowerChars == "abcdefghijklmnopqrstuvwxyz"

CharsOf(s) == {Ch(s, k) : k \in 1..Len(s)}

\* \d
DigitSet == CharsOf(DigitChars)

\* \s (the whitespace that can occur inside one line)
SpaceSet == {" ", "\t"}

\* \w
WordSet == DigitSet \cup CharsOf(UpperChars) \cup CharsOf(LowerChars) \cup {"_"}

\* [\d,]
PriceSet == DigitSet \cup {","}

Min(S) == CHOOSE x \in S : \A y \in S : x <= y

\* The index after the longest run of characters of class cls that starts at i.
RunEnd(s, i, cls) ==
  CHOOSE j \in i..(Len(s) + 1) :
    /\ \A k \in i..(j - 1) : Ch(s, k) \in cls
    /\ (j = Len(s) + 1 \/ Ch(s, j) \notin cls)

\* [A-Z]
UpperSet == CharsOf(UpperChars)

lower_char(c) ==
  IF c \in UpperSet
    THEN Ch(LowerChars, CHOOSE k \in 1..Len(UpperChars) : Ch(UpperChars, k) = c)
    ELSE c

RECURSIVE str_lower(_)
\* str.lower()
str_lower(s) ==
  IF Len(s) = 0 THEN "" ELSE lower_char(Ch(s, 1)) \o str_lower(SubSeq(s, 2, Len(s)))

RECURSIVE str_replace(_, _, _)
\* str.replace(old, new) for a single character old
str_replace(s, old, new) ==
  IF Len(s) = 0 THEN ""
  ELSE (IF Ch(s, 1) = old THEN new ELSE Ch(s, 1)) \o str_replace(SubSeq(s, 2, Len(s)), old, new)

\* str.strip()
str_strip(s) ==
  LET keep == {k \in 1..Len(s) : Ch(s, k) \notin SpaceSet}
  IN  IF keep = {} THEN "" ELSE SubSeq(s, Min(keep), CHOOSE k \in keep : \A j \in keep : j <= k)

\* str.startswith(prefix)
str_startswith(s, prefix) == Len(s) >= Len(prefix) /\ SubSeq(s, 1, Len(prefix)) = prefix

\* the literal lit stands in s at index i
LitAt(s, i, lit) == i + Len(lit) - 1 <= Len(s) /\ SubSeq(s, i, i + Len(lit) - 1) = lit

\* the literal lit stands in s at index i, ignoring case (re.I)
LitAtI(s, i, lit) ==
  i + Len(lit) - 1 <= Len(s) /\ str_lower(SubSeq(s, i, i + Len(lit) - 1)) = str_lower(lit)

\* re.search(lit, s, re.I) finds a match, for a pattern that is a literal
ContainsI(s, lit) == \E i \in 1..Len(s) : LitAtI(s, i, lit)

\* re.search(a + '.*' + b, s, re.I) finds a match, a and b literals
ContainsThenI(s, a, b) ==
  \E i \in 1..Len(s) : LitAtI(s, i, a) /\ \E j \in (i + Len(a))..Len(s) : LitAtI(s, j, b)

DigitVal(c) == CHOOSE k \in 0..9 : Ch(DigitChars, k + 1) = c

RECURSIVE ParseInt(_)
\* int(s) / float(s) of a non-empty string of decimal digits
ParseInt(s) ==
  IF Len(s) = 0 THEN 0
  ELSE ParseInt(SubSeq(s, 1, Len(s) - 1)) * 10 + DigitVal(Ch(s, Len(s)))

RECURSIVE StripZeros(_)
StripZeros(s) ==
  IF Len(s) > 0 /\ Ch(s, Len(s)) = "0" THEN StripZeros(SubSeq(s, 1, Len(s) - 1)) ELSE s

\* float(s) of digits with an optional ".digits": the value as whole part and
\* fraction digits (trailing zeros dropped, so "1.50" and "1.5" are one value).
ParseFloat(s) ==
  LET dots == {k \in 1..Len(s) : Ch(s, k) = "."}
  IN  IF dots = {} THEN [whole |-> ParseInt(s), frac |-> ""]
      ELSE [whole |-> ParseInt(SubSeq(s, 1, Min(dots) - 1)),
            frac  |-> StripZeros(SubSeq(s, Min(dots) + 1, Len(s)))]

(***************************************************************************)
(* KamapParser: field extractors                                           *)
(***************************************************************************)
\* self.current_year
current_year == 2026

\* the calendar datetime() validates against
IsLeap(y) == (y % 4 = 0 /\ y % 100 # 0) \/ y % 400 = 0

DaysInMonth(y, m) ==
  IF m = 2 THEN (IF IsLeap(y) THEN 29 ELSE 28)
  ELSE IF m \in {4, 6, 9, 11} THEN 30 ELSE 31

\* datetime(y, m, d) does not raise ValueError
ValidDate(y, m, d) == m \in 1..12 /\ d >= 1 /\ d <= DaysInMonth(y, m)

\* One match of (\w+)\s*\((\d{1,2}/\d{1,2})\) starting at index i, or None.
UnitMatchAt(s, i) ==
  IF i > Len(s) \/ Ch(s, i) \notin WordSet THEN None
  ELSE
    LET j  == RunEnd(s, i, WordSet)
        k  == RunEnd(s, j, SpaceSet)
        m1 == RunEnd(s, k + 1, DigitSet)
        d1 == RunEnd(s, m1 + 1, DigitSet)
    IN  IF /\ LitAt(s, k, "(")
           /\ m1 - (k + 1) \in {1, 2}
           /\ LitAt(s, m1, "/")
           /\ d1 - (m1 + 1) \in {1, 2}
           /\ LitAt(s, d1, ")")
        THEN Some([unit_num |-> SubSeq(s, i, j - 1),
                   month    |-> SubSeq(s, k + 1, m1 - 1),
                   day      |-> SubSeq(s, m1 + 1, d1 - 1),
                   end      |-> d1 + 1])
        ELSE None

RECURSIVE FindAllUnits(_, _)
\* re.findall(pattern, unit_text): the non-overlapping matches, left to right
FindAllUnits(s, p) ==
  IF p > Len(s) THEN <<>>
  ELSE LET m == UnitMatchAt(s, p)
       IN  IF m = None THEN FindAllUnits(s, p + 1)
           ELSE <<m[1]>> \o FindAllUnits(s, m[1].end)

RECURSIVE UnitsOf(_)
\* the loop of parse_unit_numbers: a pair whose date datetime() rejects is skipped
UnitsOf(matches) ==
  IF matches = <<>> THEN <<>>
  ELSE LET m     == Head(matches)
           month == ParseInt(m.month)
           day   == ParseInt(m.day)
       IN  (IF ValidDate(current_year, month, day)
              THEN <<[unit_number    |-> m.unit_num,
                      available_date |-> [year |-> current_year, month |-> month, day |-> day]]>>
              ELSE <<>>)
           \o UnitsOf(Tail(matches))

parse_unit_numbers(unit_text) == UnitsOf(FindAllUnits(unit_text, 1))

\* One match of \$?([\d,]+) starting at index i: group(1), or None.
PriceMatchAt(s, i) ==
  IF LitAt(s, i, "$") /\ i + 1 <= Len(s) /\ Ch(s, i + 1) \in PriceSet
    THEN Some(SubSeq(s, i + 1, RunEnd(s, i + 1, PriceSet) - 1))
  ELSE IF i <= Len(s) /\ Ch(s, i) \in PriceSet
    THEN Some(SubSeq(s, i, RunEnd(s, i, PriceSet) - 1))
  ELSE None

\* parse_price with the bug that the pattern is \$?(\d+): the numeral ends at
\* the first thousands separator
parse_price_NoSeparators(price_str) ==
  LET starts == {i \in 1..Len(price_str) : Ch(price_str, i) \in DigitSet}
  IN  IF starts = {} THEN [raised |-> FALSE, value |-> None]
      ELSE [raised |-> FALSE,
            value  |-> Some(ParseInt(SubSeq(price_str, Min(starts),
                                            RunEnd(price_str, Min(starts), DigitSet) - 1)))]

\* parse_price: [raised, value]; raised is the ValueError of float('').
parse_price(price_str) ==
  LET starts == {i \in 1..Len(price_str) : PriceMatchAt(price_str, i) # None}
  IN  IF starts = {} THEN [raised |-> FALSE, value |-> None]
      ELSE LET digits == str_replace(PriceMatchAt(price_str, Min(starts))[1], ",", "")
           IN  IF Len(digits) = 0 THEN [raised |-> TRUE, value |-> None]
               ELSE [raised |-> FALSE, value |-> Some(ParseInt(digits))]

\* One match of (\d+)\s*(Bed|Singles?|Person) starting at index i, or None.
BedMatchAt(s, i) ==
  IF i > Len(s) \/ Ch(s, i) \notin DigitSet THEN None
  ELSE
    LET j == RunEnd(s, i, DigitSet)
        k == RunEnd(s, j, SpaceSet)
        n == SubSeq(s, i, j - 1)
    IN  IF LitAt(s, k, "Bed") THEN Some([num |-> n, tok |-> "Bed"])
        ELSE IF LitAt(s, k, "Singles") THEN Some([num |-> n, tok |-> "Singles"])
        ELSE IF LitAt(s, k, "Single") THEN Some([num |-> n, tok |-> "Single"])
        ELSE IF LitAt(s, k, "Person") THEN Some([num |-> n, tok |-> "Person"])
        ELSE None

\* One match of (\d+(?:\.\d+)?)\s*Bath starting at index i: group(1), or None.
BathMatchAt(s, i) ==
  IF i > Len(s) \/ Ch(s, i) \notin DigitSet THEN None
  ELSE
    LET j  == RunEnd(s, i, DigitSet)
        j2 == IF LitAt(s, j, ".") /\ j + 1 <= Len(s) /\ Ch(s, j + 1) \in DigitSet
                THEN RunEnd(s, j + 1, DigitSet) ELSE j
    IN  IF LitAt(s, RunEnd(s, j2, SpaceSet), "Bath") THEN Some(SubSeq(s, i, j2 - 1))
        ELSE IF LitAt(s, RunEnd(s, j, SpaceSet), "Bath") THEN Some(SubSeq(s, i, j - 1))
        ELSE None

parse_room_type(room_str) ==
  LET beds_at   == {i \in 1..Len(room_str) : BedMatchAt(room_str, i) # None}
      baths_at  == {i \in 1..Len(room_str) : BathMatchAt(room_str, i) # None}
      bed_match == IF beds_at = {} THEN None ELSE BedMatchAt(room_str, Min(beds_at))
      bath_match == IF baths_at = {} THEN None ELSE BathMatchAt(room_str, Min(baths_at))
      beds      == IF bed_match # None THEN Some(ParseInt(bed_match[1].num)) ELSE None
  IN  [bedrooms        |-> beds,
       bathrooms       |-> IF bath_match # None THEN Some(ParseFloat(bath_match[1])) ELSE None,
       room_type       |-> IF bed_match # None THEN bed_match[1].tok ELSE "Unknown",
       person_capacity |-> beds]

\* One match of \$(\d+)\s*per year starting at index i: group(1), or None.
ParkingMatchAt(s, i) ==
  IF ~LitAt(s, i, "$") \/ i + 1 > Len(s) \/ Ch(s, i + 1) \notin DigitSet THEN None
  ELSE LET j == RunEnd(s, i + 1, DigitSet)
       IN  IF LitAt(s, RunEnd(s, j, SpaceSet), "per year")
             THEN Some(SubSeq(s, i + 1, j - 1)) ELSE None

RECURSIVE str_join(_, _)
\* sep.join(items)
str_join(sep, items) ==
  IF items = <<>> THEN ""
  ELSE IF Len(items) = 1 THEN items[1]
  ELSE items[1] \o sep \o str_join(sep, Tail(items))

\* extract_features with the bug that the gas test is made first, so that the
\* tags are collected in another order
extract_features_GasFirst(description) ==
  LET parking_at == {i \in 1..Len(description) : ParkingMatchAt(description, i) # None}
      amenities ==
           (IF ContainsI(description, "Gas") THEN <<"Gas Included">> ELSE <<>>)
        \o (IF ContainsThenI(description, "Free", "Internet") THEN <<"Free Internet">> ELSE <<>>)
        \o (IF \/ ContainsThenI(description, "Water", "Trash")
               \/ ContainsThenI(description, "Trash", "Water")
              THEN <<"Water/Trash Included">> ELSE <<>>)
        \o (IF ContainsThenI(description, "Washer", "Dryer")
              THEN <<"In-Unit Washer/Dryer">> ELSE <<>>)
  IN  [is_remodeled        |-> ContainsI(description, "Remodeled"),
       has_balcony         |-> ContainsI(description, "Balcony"),
       has_patio           |-> ContainsI(description, "Patio"),
       has_parking         |-> ContainsI(description, "Parking Available"),
       split_floor_plan    |-> ContainsI(description, "Split Floor Plan"),
       parking_cost_yearly |-> IF parking_at = {} THEN 0
                               ELSE ParseInt(ParkingMatchAt(description, Min(parking_at))[1]),
       amenities           |-> IF amenities # <<>> THEN str_join(", ", amenities)
                               ELSE "None listed"]

extract_features(description) ==
  LET parking_at == {i \in 1..Len(description) : ParkingMatchAt(description, i) # None}
      amenities ==
           (IF ContainsThenI(description, "Free", "Internet") THEN <<"Free Internet">> ELSE <<>>)
        \o (IF \/ ContainsThenI(description, "Water", "Trash")
               \/ ContainsThenI(description, "Trash", "Water")
              THEN <<"Water/Trash Included">> ELSE <<>>)
        \o (IF ContainsThenI(description, "Washer", "Dryer")
              THEN <<"In-Unit Washer/Dryer">> ELSE <<>>)
        \o (IF ContainsI(description, "Gas") THEN <<"Gas Included">> ELSE <<>>)
  IN  [is_remodeled        |-> ContainsI(description, "Remodeled"),
       has_balcony         |-> ContainsI(description, "Balcony"),
       has_patio           |-> ContainsI(description, "Patio"),
       has_parking         |-> ContainsI(description, "Parking Available"),
       split_floor_plan    |-> ContainsI(description, "Split Floor Plan"),
       parking_cost_yearly |-> IF parking_at = {} THEN 0
                               ELSE ParseInt(ParkingMatchAt(description, Min(parking_at))[1]),
       amenities           |-> IF amenities # <<>> THEN str_join(", ", amenities)
                               ELSE "None listed"]

(***************************************************************************)
(* KamapParser: line classification and listing assembly                   *)
(***************************************************************************)
\* the street names of address_pattern, in the order of its alternation
StreetNames ==
  <<"Cordoba", "Abrego", "El Nido", "Segovia", "Sabado Tarde", "Trigo", "Picasso",
    "Pasado", "Camino Corto", "Embarcadero del Norte">>

\* the street-type suffixes of address_pattern
StreetSuffixes == <<"Rd", "St", "Ave", "Dr", "Ln">>

\* the end of the first alternative of alts that stands at index i (re.I), or 0
AltEndI(s, i, alts) ==
  LET hits == {a \in 1..Len(alts) : LitAtI(s, i, alts[a])}
  IN  IF hits = {} THEN 0 ELSE i + Len(alts[Min(hits)])

\* One match of address_pattern starting at index i: group(1), or None.
AddrMatchAt(s, i) ==
  IF i > Len(s) \/ Ch(s, i) \notin DigitSet THEN None
  ELSE
    LET d  == RunEnd(s, i, DigitSet)
        w  == RunEnd(s, d, SpaceSet)
        e  == AltEndI(s, w, StreetNames)
        w2 == RunEnd(s, e, SpaceSet)
        x  == IF w2 > e THEN AltEndI(s, w2, StreetSuffixes) ELSE 0
    IN  IF (d - i) \in {4, 5} /\ w > d /\ e # 0
          THEN Some(SubSeq(s, i, (IF x # 0 THEN x ELSE e) - 1))
          ELSE None

\* re.search(address_pattern, line, re.I): group(1) of the leftmost match, or None
search_address(line) ==
  LET starts == {i \in 1..Len(line) : AddrMatchAt(line, i) # None}
  IN  IF starts = {} THEN None ELSE AddrMatchAt(line, Min(starts))

\* line.split(' ', 1)
split_once(line) ==
  LET sp == {k \in 1..Len(line) : Ch(line, k) = " "}
  IN  IF sp = {} THEN <<line>>
      ELSE <<SubSeq(line, 1, Min(sp) - 1), SubSeq(line, Min(sp) + 1, Len(line))>>

\* One match of Unit[s]?\s*# starting at index i: [start, end], or None.
UnitMarkerAt(s, i) ==
  IF ~LitAt(s, i, "Unit") THEN None
  ELSE LET a == IF LitAt(s, i + 4, "s") THEN i + 5 ELSE i + 4
           b == RunEnd(s, a, SpaceSet)
       IN  IF LitAt(s, b, "#") THEN Some([start |-> i, end |-> b + 1]) ELSE None

\* re.search(r'Unit[s]?\s*#', rest)
search_unit_marker(rest) ==
  LET starts == {i \in 1..Len(rest) : UnitMarkerAt(rest, i) # None}
  IN  IF starts = {} THEN None ELSE UnitMarkerAt(rest, Min(starts))

\* the listing dict of _parse_listing_line for one unit; now is datetime.now()
Listing(line, address, price, room_info, features, unit_info, now) ==
  [listing_id          |-> str_lower("kamap_" \o str_replace(address, " ", "_") \o "_"
                                       \o unit_info.unit_number),
   property_management |-> "Kamap Property Management",
   address             |-> address \o ", Isla Vista, CA 93117",
   unit_number         |-> unit_info.unit_number,
   price_monthly       |-> price,
   available_date      |-> unit_info.available_date,
   source_url          |-> "https://www.kamap.net/",
   scraped_date        |-> now,
   bedrooms            |-> room_info.bedrooms,
   bathrooms           |-> room_info.bathrooms,
   room_type           |-> room_info.room_type,
   person_capacity     |-> room_info.person_capacity,
   is_remodeled        |-> features.is_remodeled,
   has_balcony         |-> features.has_balcony,
   has_patio           |-> features.has_patio,
   has_parking         |-> features.has_parking,
   split_floor_plan    |-> features.split_floor_plan,
   parking_cost_yearly |-> features.parking_cost_yearly,
   amenities           |-> features.amenities,
   description         |-> str_strip(line)]

\* the keys of the listing dict, in the order the dict literal inserts them
ListingKeys ==
  <<"listing_id", "property_management", "address", "unit_number", "price_monthly",
    "available_date", "source_url", "scraped_date", "bedrooms", "bathrooms", "room_type",
    "person_capacity", "is_remodeled", "has_balcony", "has_patio", "has_parking",
    "split_floor_plan", "parking_cost_yearly", "amenities", "description">>

\* _parse_listing_line up to its loop (everything that does not read the
\* address): how it ends without reaching the loop ("return" or "raise"), or
\* "loop" with the values the loop reads.
ListingFields(line) ==
  LET parts == split_once(line)
      skip(how) == [ends |-> how, price |-> None, room_info |-> None, units |-> <<>>,
                    features |-> None]
  IN  IF Len(parts) < 2 THEN skip("return")
      ELSE
        LET price      == parse_price(parts[1])
            rest       == parts[2]
            unit_match == search_unit_marker(rest)
        IN  IF price.raised THEN skip("raise")
            ELSE IF unit_match = None THEN skip("return")
            ELSE
              LET room_part == str_strip(SubSeq(rest, 1, unit_match[1].start - 1))
                  unit_part == str_strip(SubSeq(rest, unit_match[1].end, Len(rest)))
              IN  [ends      |-> "loop",
                   price     |-> price.value,
                   room_info |-> parse_room_type(room_part),
                   units     |-> parse_unit_numbers(unit_part),
                   features  |-> extract_features(line \o " " \o unit_part)]

\* pd.DataFrame(self.listings).columns: the keys of the dicts in order of first
\* appearance; a DataFrame built from an empty list has no columns.
to_dataframe(ls) ==
  [columns |-> IF Len(ls) = 0 THEN <<>> ELSE ListingKeys, rows |-> ls]

(***************************************************************************)
(* Bounds and inputs                                                       *)
(***************************************************************************)
\* the longest document, in lines
MaxLines == 3

\* the number of parse_all calls made on one KamapParser object
MaxRuns == 2

\* The lines a document is made of.
Corpus ==
  { "",
    "6543 Segovia Rd",
    "$900 6543 segovia Units #B (8/15)",
    "Kamap Property Management",
    "$3,250 2 Bed / 2 Bath Unit #A101 (8/15)",
    "$1,800 1 Bed / 1.5 Bath Units #A (8/15) a (9/1) A (8/15)",
    "$x5 Unit #C (13/1) D (2/30) E (7/4)",
    "$ 3 Person Unit #F (1/1)",
    "$, 1 Bed Unit #B (8/15) C (13/1)",
    "  $950 Studio\t",
    "$, Studio",
    "$2,000 2 Singles Units # G_1(6/20) Gas, Free WiFi Internet, Washer/Dryer $500 per year" }

\* The documents: the lines of the pages of a PDF.
Documents == UNION {[1..n -> Corpus] : n \in 0..MaxLines}

\* the most amenity phrases written on one listing line
MaxPhrases == 3

\* The phrases the amenity patterns of extract_features are tried on.
AmenityPhrases == {"Free High-Speed Internet", "Water", "trash", "Washer/Dryer", "GAS"}

\* The listing lines with up to MaxPhrases different phrases, in any order,
\* between the price token and the unit marker.
AmenityLines ==
  { "$1 " \o str_join(", ", ws) \o " Unit #A (1/1)" :
      ws \in UNION { {f \in [1..n -> AmenityPhrases] :
                        \A i, j \in 1..n : i # j => f[i] # f[j]} : n \in 0..MaxPhrases } }

\* The documents with one address line and one of these listing lines.
AmenityDocuments == {<<"6543 Segovia Rd", l>> : l \in AmenityLines}

\* every line a document can hold
AllLines == Corpus \cup AmenityLines

\* line.strip() of every line (evaluated once)
Stripped == [raw \in AllLines |-> str_strip(raw)]

\* re.search(address_pattern, line, re.I) of every stripped line (evaluated once)
AddressIn == [raw \in AllLines |-> search_address(Stripped[raw])]

\* ListingFields of every stripped line (evaluated once)
FieldsOf == [raw \in AllLines |-> ListingFields(Stripped[raw])]

\* _parse_listing_line(line, address) for the line raw: [raised, appended], the
\* exception it ends with (if any) and the listings it appends to self.listings;
\* now is the clock reading of its first datetime.now() call, and each call
\* advances the clock by one.
parse_listing_line(raw, address, now) ==
  LET f == FieldsOf[raw]
  IN  [raised   |-> f.ends = "raise",
       appended |-> [k \in 1..Len(f.units) |->
                       Listing(Stripped[raw], address, f.price, f.room_info, f.features,
                               f.units[k], now + k - 1)]]

(***************************************************************************)
(* State                                                                   *)
(***************************************************************************)
VARIABLES
  text,             \* the lines of the pages of the PDF at self.pdf_path
  pc,               \* "idle", "walk" (inside parse_all's loop) or "raised"
  line_no,          \* parse_all: the index of the line the loop takes next
  current_address,  \* parse_all: the local current_address
  listings,         \* self.listings
  clock,            \* the number of datetime.now() readings taken so far
  returned,         \* what each completed parse_all call returned
  csv               \* the table save_to_csv wrote: None or Some([header, nrows])

vars == <<text, pc, line_no, current_address, listings, clock, returned, csv>>

Init ==
  /\ text \in Documents
  /\ pc = "idle"
  /\ line_no = 0
  /\ current_address = None
  /\ listings = <<>>
  /\ clock = 0
  /\ returned = <<>>
  /\ csv = None

\* the parser is made for a PDF whose listing lines try the amenity patterns
AmenityInit ==
  /\ text \in AmenityDocuments
  /\ pc = "idle"
  /\ line_no = 0
  /\ current_address = None
  /\ listings = <<>>
  /\ clock = 0
  /\ returned = <<>>
  /\ csv = None

\* text.split('\n') of what extract_text returns: every page's text is followed
\* by "\n", so the split ends with an empty line
DocLines == text \o <<"">>

\* the line the loop is at
CurLine == DocLines[line_no]

\* line.startswith('$') and current_address
IsListing == str_startswith(Stripped[CurLine], "$") /\ current_address # None

InLoop == pc = "walk" /\ line_no <= Len(DocLines)

\* parse_all up to the loop: the text is read, current_address = None
ParseAllBegin ==
  /\ pc = "idle"
  /\ Len(returned) < MaxRuns
  /\ pc' = "walk"
  /\ line_no' = 1
  /\ current_address' = None
  /\ UNCHANGED <<text, listings, clock, returned, csv>>

\* WalkAddress with the bug that only the first address of a document is kept
WalkAddress_KeepFirst ==
  /\ InLoop
  /\ AddressIn[CurLine] # None
  /\ current_address' = IF current_address = None THEN AddressIn[CurLine] ELSE current_address
  /\ line_no' = line_no + 1
  /\ UNCHANGED <<text, pc, listings, clock, returned, csv>>

\* WalkAddress with the bug that the iteration does not end after the address
\* is taken: a line that also starts with "$" is parsed as a listing line
WalkAddress_NoContinue ==
  /\ InLoop
  /\ AddressIn[CurLine] # None
  /\ current_address' = AddressIn[CurLine]
  /\ IF str_startswith(Stripped[CurLine], "$")
       THEN LET out == parse_listing_line(CurLine, AddressIn[CurLine][1], clock)
            IN  IF out.raised
                  THEN /\ pc' = "raised"
                       /\ UNCHANGED <<line_no, listings, clock>>
                  ELSE /\ listings' = listings \o out.appended
                       /\ clock' = clock + Len(out.appended)
                       /\ line_no' = line_no + 1
                       /\ pc' = pc
       ELSE /\ line_no' = line_no + 1
            /\ UNCHANGED <<pc, listings, clock>>
  /\ UNCHANGED <<text, returned, csv>>

\* one iteration of the loop: the line holds an address
WalkAddress ==
  /\ InLoop
  /\ AddressIn[CurLine] # None
  /\ current_address' = AddressIn[CurLine]
  /\ line_no' = line_no + 1
  /\ UNCHANGED <<text, pc, listings, clock, returned, csv>>

\* one iteration of the loop: a listing line under a known address
WalkListing ==
  /\ InLoop
  /\ AddressIn[CurLine] = None
  /\ IsListing
  /\ LET out == parse_listing_line(CurLine, current_address[1], clock)
     IN  IF out.raised
           THEN /\ pc' = "raised"
                /\ UNCHANGED <<line_no, listings, clock>>
           ELSE /\ listings' = listings \o out.appended
                /\ clock' = clock + Len(out.appended)
                /\ line_no' = line_no + 1
                /\ pc' = pc
  /\ UNCHANGED <<text, current_address, returned, csv>>

\* one iteration of the loop: any other line
WalkIgnore ==
  /\ InLoop
  /\ AddressIn[CurLine] = None
  /\ ~IsListing
  /\ line_no' = line_no + 1
  /\ UNCHANGED <<text, pc, current_address, listings, clock, returned, csv>>

\* the loop is over: return self.listings
ParseAllReturn ==
  /\ pc = "walk"
  /\ line_no > Len(DocLines)
  /\ pc' = "idle"
  /\ returned' = Append(returned, listings)
  /\ UNCHANGED <<text, line_no, current_address, listings, clock, csv>>

\* save_to_csv: the header line and the number of rows written
SaveToCsv ==
  /\ pc = "idle"
  /\ LET df == to_dataframe(listings)
     IN  csv' = Some([header |-> df.columns, nrows |-> Len(df.rows)])
  /\ UNCHANGED <<text, pc, line_no, current_address, listings, clock, returned>>

Next ==
  \/ ParseAllBegin
  \/ WalkAddress
  \/ WalkListing
  \/ WalkIgnore
  \/ ParseAllReturn
  \/ SaveToCsv

Spec == Init /\ [][Next]_vars

AmenitySpec == AmenityInit /\ [][Next]_vars

(***************************************************************************)
(* Vocabulary of the properties                                            *)
(***************************************************************************)
Max(S) == CHOOSE x \in S : \A y \in S : x >= y

\* what the listing dict puts after the address fragment
CityTail == ", Isla Vista, CA 93117"

\* the address fragment of the latest address line before line n, or None
LastAddressBefore(n) ==
  LET before == {m \in 1..(n - 1) : AddressIn[text[m]] # None}
  IN  IF before = {} THEN None ELSE AddressIn[text[Max(before)]]

\* the loop is at a listing line: no address in it, a leading "$", an address known
AtListingLine == InLoop /\ AddressIn[CurLine] = None /\ IsListing

\* the records a step appends
Appended == SubSeq(listings', Len(listings) + 1, Len(listings'))

\* the price token and the remainder of a stripped line that has both
HasRemainder(line) == Len(split_once(line)) = 2

\* the text after the "Unit(s) #" marker of the remainder, or None without one
UnitFragment(line) ==
  IF ~HasRemainder(line) \/ search_unit_marker(split_once(line)[2]) = None THEN None
  ELSE LET rest == split_once(line)[2]
       IN  Some(str_strip(SubSeq(rest, search_unit_marker(rest)[1].end, Len(rest))))

\* the text before the "Unit(s) #" marker of the remainder, or None without one
RoomFragment(line) ==
  IF ~HasRemainder(line) \/ search_unit_marker(split_once(line)[2]) = None THEN None
  ELSE LET rest == split_once(line)[2]
       IN  Some(str_strip(SubSeq(rest, 1, search_unit_marker(rest)[1].start - 1)))

\* the unit/date pairs written in a fragment, and whether each names a date of
\* the reference year
PairIsValid(m) == ValidDate(current_year, ParseInt(m.month), ParseInt(m.day))

PairOf(m) ==
  <<m.unit_num, [year |-> current_year, month |-> ParseInt(m.month), day |-> ParseInt(m.day)]>>

\* per line of the corpus (evaluated once): the pairs of its unit/date fragment
\* (None: the remainder has no marker), and the valid ones among them in order
PairsIn ==
  [raw \in AllLines |->
     IF UnitFragment(Stripped[raw]) = None THEN None
     ELSE Some(FindAllUnits(UnitFragment(Stripped[raw])[1], 1))]

ValidPairsIn ==
  [raw \in AllLines |->
     IF PairsIn[raw] = None THEN <<>>
     ELSE LET v == SelectSeq(PairsIn[raw][1], PairIsValid)
          IN  [k \in 1..Len(v) |-> PairOf(v[k])]]

\* the fields every record of one listing line shares
SharedFields(r) ==
  <<r.price_monthly, r.bedrooms, r.bathrooms, r.room_type, r.person_capacity,
    r.is_remodeled, r.has_balcony, r.has_patio, r.has_parking, r.split_floor_plan,
    r.parking_cost_yearly, r.amenities>>

Triple(r) == <<r.address, r.unit_number, r.available_date>>

\* the (address, unit, date) triples written in the document: the valid pairs
\* of the listing lines, each under the latest address line before it
FoundTriples ==
  UNION { IF /\ AddressIn[text[n]] = None
             /\ str_startswith(Stripped[text[n]], "$")
             /\ LastAddressBefore(n) # None
            THEN {<<LastAddressBefore(n)[1] \o CityTail, ValidPairsIn[text[n]][k][1],
                    ValidPairsIn[text[n]][k][2]>> : k \in 1..Len(ValidPairsIn[text[n]])}
            ELSE {}
          : n \in 1..Len(text) }

\* the stripped lines whose price token holds no numeral right after a "$"
NoCurrencyNumeral ==
  { Stripped[raw] : raw \in
      {x \in Corpus :
         LET tok == split_once(Stripped[x])[1]
         IN  ~\E i \in 1..Len(tok) :
                LitAt(tok, i, "$") /\ i + 1 <= Len(tok) /\ Ch(tok, i + 1) \in DigitSet} }

\* the stripped lines whose room fragment holds no bedroom token / no bathroom token
NoBedroomToken ==
  { Stripped[raw] : raw \in
      {x \in Corpus :
         RoomFragment(Stripped[x]) = None
         \/ \A i \in 1..Len(RoomFragment(Stripped[x])[1]) :
              BedMatchAt(RoomFragment(Stripped[x])[1], i) = None} }

NoBathroomToken ==
  { Stripped[raw] : raw \in
      {x \in Corpus :
         RoomFragment(Stripped[x]) = None
         \/ \A i \in 1..Len(RoomFragment(Stripped[x])[1]) :
              BathMatchAt(RoomFragment(Stripped[x])[1], i) = None} }

(***************************************************************************)
(* Properties                                                              *)
(***************************************************************************)
\* C1: every parse_all call on one parser and one document returns a sequence
\* of the same length, with the same listing_id at each position, as the first.
C1_RerunIdentical ==
  \A r \in 1..Len(returned) :
    /\ Len(returned[r]) = Len(returned[1])
    /\ \A k \in 1..Len(returned[1]) : returned[r][k].listing_id = returned[1][k].listing_id

\* C2: a step of the walk only appends records, every record it appends carries
\* the address fragment of the latest address line before the line it is at, and
\* with no address line before that line it appends nothing.
C2_AddressContext ==
  [][ /\ Len(listings') >= Len(listings)
      /\ SubSeq(listings', 1, Len(listings)) = listings
      /\ listings' # listings =>
           /\ InLoop
           /\ LastAddressBefore(line_no) # None
           /\ \A k \in 1..Len(Appended) :
                Appended[k].address = LastAddressBefore(line_no)[1] \o CityTail ]_vars

\* C2 witness: the walk has passed two address lines and then a listing line,
\* whose record carries the fragment of the second one.
C2_Witness ==
  /\ pc = "walk" /\ Len(text) = 3 /\ line_no = 4
  /\ AddressIn[text[1]] # None /\ AddressIn[text[2]] # None
  /\ AddressIn[text[1]] # AddressIn[text[2]]
  /\ Len(listings) > 0
  /\ listings[1].address = AddressIn[text[2]][1] \o CityTail

\* C3: the step for a listing line whose remainder has a "Unit(s) #" marker and
\* whose fragment holds n valid pairs appends exactly n records, which agree on
\* the price, room, boolean and amenity fields.
C3_OneRecordPerPair ==
  [][ (AtListingLine /\ PairsIn[CurLine] # None) =>
        /\ listings' = listings \o Appended
        /\ Len(Appended) = Len(ValidPairsIn[CurLine])
        /\ \A a, b \in 1..Len(Appended) : SharedFields(Appended[a]) = SharedFields(Appended[b])
    ]_vars

\* C4: what the first parse_all call returns holds every triple written in the
\* document, and no triple twice.
C4_OnePerTriple ==
  Len(returned) >= 1 =>
    /\ \A t \in FoundTriples : \E k \in 1..Len(returned[1]) : Triple(returned[1][k]) = t
    /\ \A a, b \in 1..Len(returned[1]) :
         a # b => Triple(returned[1][a]) # Triple(returned[1][b])

\* C5: two records have the same listing_id exactly when they have the same
\* address and the same unit_number.
C5_IdUnique ==
  \A a, b \in 1..Len(listings) :
    (listings[a].listing_id = listings[b].listing_id)
      <=> (/\ listings[a].address = listings[b].address
           /\ listings[a].unit_number = listings[b].unit_number)

\* C6: no walk ends with an exception.
C6_NeverRaises == pc # "raised"

\* C7: the step for a listing line whose fragment holds pairs with an invalid
\* date appends one record for each valid pair of the fragment, in their order.
C7_InvalidDateDropsOnlyItsPair ==
  [][ (/\ AtListingLine
       /\ PairsIn[CurLine] # None
       /\ Len(ValidPairsIn[CurLine]) < Len(PairsIn[CurLine][1])) =>
        /\ listings' = listings \o Appended
        /\ Len(Appended) = Len(ValidPairsIn[CurLine])
        /\ \A k \in 1..Len(Appended) :
             <<Appended[k].unit_number, Appended[k].available_date>> = ValidPairsIn[CurLine][k]
    ]_vars

\* C8: the step for a listing line that has a price token and a remainder
\* without a "Unit(s) #" marker raises nothing, leaves the records and the
\* address context as they are, and the walk goes on with the next line.
C8_NoMarkerSkipped ==
  [][ (AtListingLine /\ HasRemainder(Stripped[CurLine]) /\ PairsIn[CurLine] = None) =>
        /\ pc' = "walk"
        /\ line_no' = line_no + 1
        /\ listings' = listings
        /\ current_address' = current_address ]_vars

\* C9: in every record, price_monthly is absent when the price token of its line
\* has no currency-prefixed numeral, and bedrooms / bathrooms are absent when the
\* room fragment has no bedroom / bathroom token.
C9_AbsentNotCoerced ==
  \A k \in 1..Len(listings) :
    /\ listings[k].description \in NoCurrencyNumeral => listings[k].price_monthly = None
    /\ listings[k].description \in NoBedroomToken => listings[k].bedrooms = None
    /\ listings[k].description \in NoBathroomToken => listings[k].bathrooms = None

\* C10: every table written has the full fixed column list as its header.
C10_StableColumns == csv # None => csv[1].header = ListingKeys

\* C11: the first parse of the document "6543 Segovia Rd" /
\* "$3,250 2 Bed / 2 Bath Unit #A101 (8/15)" returns exactly one record, whose
\* address contains "6543 Segovia Rd", with price 3250, 2 bedrooms, 2 bathrooms,
\* unit "A101" and date August 15 of 2026.
C11_Document == <<"6543 Segovia Rd", "$3,250 2 Bed / 2 Bath Unit #A101 (8/15)">>

C11_WorkedExample ==
  (text = C11_Document /\ Len(returned) >= 1) =>
    /\ Len(returned[1]) = 1
    /\ \E i \in 1..Len(returned[1][1].address) :
         LitAt(returned[1][1].address, i, "6543 Segovia Rd")
    /\ returned[1][1].price_monthly = Some(3250)
    /\ returned[1][1].bedrooms = Some(2)
    /\ returned[1][1].bathrooms = Some([whole |-> 2, frac |-> ""])
    /\ returned[1][1].unit_number = "A101"
    /\ returned[1][1].available_date = [year |-> 2026, month |-> 8, day |-> 15]

\* C11 witness: the first parse of that document has returned.
C11_Witness == text = C11_Document /\ Len(returned) = 1 /\ pc = "idle"


\* the canonical tags, in the scan order of the extractor
AmenityTags ==
  <<"Free Internet", "Water/Trash Included", "In-Unit Washer/Dryer", "Gas Included">>

\* the tags whose pattern matches the text t, as indices of AmenityTags
MatchingTags(t) ==
  {n \in 1..4 :
     \/ n = 1 /\ ContainsThenI(t, "Free", "Internet")
     \/ n = 2 /\ (ContainsThenI(t, "Water", "Trash") \/ ContainsThenI(t, "Trash", "Water"))
     \/ n = 3 /\ ContainsThenI(t, "Washer", "Dryer")
     \/ n = 4 /\ ContainsI(t, "Gas")}

RECURSIVE TagsFrom(_, _)
\* the tags of the set hits from index n on, each but the first after ", "
TagsFrom(hits, n) ==
  IF n > Len(AmenityTags) THEN ""
  ELSE (IF n \in hits THEN (IF n = Min(hits) THEN "" ELSE ", ") \o AmenityTags[n] ELSE "")
       \o TagsFrom(hits, n + 1)

\* per line (evaluated once): the amenities value C12 states for the text
\* extract_features is given for the line (the line, a space, the unit fragment)
ExpectedAmenities ==
  [raw \in AllLines |->
     IF UnitFragment(Stripped[raw]) = None THEN "None listed"
     ELSE LET hits == MatchingTags(Stripped[raw] \o " " \o UnitFragment(Stripped[raw])[1])
          IN  IF hits = {} THEN "None listed" ELSE TagsFrom(hits, 1)]

\* C12: the amenities value of every record a listing line yields is the tags
\* of exactly the matching patterns, joined by ", " in the scan order, and
\* "None listed" (never the empty string) when no pattern matches.
C12_AmenitiesInScanOrder ==
  [][ AtListingLine =>
        \A k \in 1..Len(Appended) :
          /\ Appended[k].amenities = ExpectedAmenities[CurLine]
          /\ Appended[k].amenities # "" ]_vars

\* C12 witness: a line that names gas first and the internet last has yielded
\* a record with "Free Internet" first and "Gas Included" last.
C12_Witness ==
  /\ Len(listings) = 1
  /\ listings[1].description = "$1 GAS, Washer/Dryer, Free High-Speed Internet Unit #A (1/1)"
  /\ listings[1].amenities = "Free Internet, In-Unit Washer/Dryer, Gas Included"

\* C12, the other case: a line on which no pattern matches has yielded a record.
C12_NoneListedReached ==
  /\ Len(listings) = 1
  /\ listings[1].description = "$1 Water Unit #A (1/1)"
  /\ listings[1].amenities = "None listed"

\* C13: an iteration of the loop at a line that holds an address fragment sets
\* the context to that fragment and leaves the records as they are; an
\* iteration at any other line leaves the context as it is; and outside the
\* loop the context changes only where parse_all begins, with no address known.
C13_ContextOnlyByAddressLines ==
  [][ /\ (InLoop /\ AddressIn[CurLine] # None) =>
           /\ current_address' = AddressIn[CurLine]
           /\ listings' = listings
      /\ (InLoop /\ AddressIn[CurLine] = None) => current_address' = current_address
      /\ (~InLoop /\ current_address' # current_address) =>
           /\ pc = "idle" /\ pc' = "walk"
           /\ current_address' = None ]_vars

\* C13 witness: under a known address the walk has passed a line that starts
\* with "$", has a "Units #" marker and holds an address fragment: the context
\* is that fragment and no record was made.
C13_Witness ==
  /\ text = <<"6543 Segovia Rd", "$900 6543 segovia Units #B (8/15)">>
  /\ pc = "walk" /\ line_no = 3
  /\ current_address = Some("6543 segovia")
  /\ listings = <<>>

(***************************************************************************)
(* What holds of the listing lines parse_price does not raise on.  The     *)
(* violations of C3, C7 and C8 are the lines whose price token is made of  *)
(* commas only: the ValueError of C6 ends the walk before the line is      *)
(* handled.                                                                *)
(***************************************************************************)
PriceParses == FieldsOf[CurLine].ends # "raise"

OneRecordPerPair_WhenPriceParses ==
  [][ (AtListingLine /\ PairsIn[CurLine] # None /\ PriceParses) =>
        /\ listings' = listings \o Appended
        /\ Len(Appended) = Len(ValidPairsIn[CurLine])
        /\ \A a, b \in 1..Len(Appended) : SharedFields(Appended[a]) = SharedFields(Appended[b])
        /\ \A k \in 1..Len(Appended) :
             <<Appended[k].unit_number, Appended[k].available_date>> = ValidPairsIn[CurLine][k]
    ]_vars

NoMarkerSkipped_WhenPriceParses ==
  [][ (AtListingLine /\ HasRemainder(Stripped[CurLine]) /\ PairsIn[CurLine] = None
       /\ PriceParses) =>
        /\ pc' = "walk"
        /\ line_no' = line_no + 1
        /\ listings' = listings
        /\ current_address' = current_address ]_vars

====
